---- MODULE Spec2Model ----
(***************************************************************************)
(* Model of the gRPC / AWS X-Ray unary interceptors of src/main.go:        *)
(* NewGrpcXrayUnaryClientInterceptor, NewGrpcXrayUnaryServerInterceptor    *)
(* and GetDefaultHostFromTargetFunc.                                        *)
(*                                                                         *)
(* Strings that the code slices or searches (connection targets,           *)
(* namespaces) are sequences of one-character strings.  A serialized trace *)
(* header is a sequence of <<prefix, value>> parts (the ";"-separated      *)
(* parts of the wire string).  Opaque strings (method names, ids) are TLA+ *)
(* strings.                                                                *)
(***************************************************************************)
EXTENDS Integers, Sequences, FiniteSets, TLC

\* ------------------------------------------------------------------ bounds
\* Longest connection target explored by the normalizer specification.
MaxTargetLen == 5

\* ------------------------------------------------------- program constants
GrpcMethod == "POST"
CustomUserAgent == "Vendrive-gRPC-XRAY-Interceptor"
TraceIDHeaderKey == "x-amzn-trace-id"
StatusFailure == 400
StatusSuccess == 200

\* Go's nil, and the error created by the server interceptor itself.
Nil == "nil"
ErrNoMetadata == "unable to read metadata"

\* ------------------------------------------------------------ environment
Calls == {"c1", "c2"}
\* Errors the wrapped invoker / handler may return (two kinds, to show the
\* kind does not matter), and the results a handler may return.
WrappedErrors == {"Unavailable", "Internal"}
\* What a handler may return: a result, an error, or an error with a result.
HandlerOutcomes ==
  {[resp |-> "reply", err |-> Nil],
   [resp |-> Nil, err |-> "Unavailable"],
   [resp |-> "partial", err |-> "Internal"]}
\* Characters of connection targets and namespaces.
Alphabet == {"a", ".", "n", ":"}

\* ------------------------------------------------------- string helpers
\* strings.IndexByte: 0-based index of the first c in s, -1 if there is none.
IndexByte(s, c) ==
  IF \E i \in 1..Len(s) : s[i] = c
  THEN (CHOOSE i \in 1..Len(s) : s[i] = c /\ \A j \in 1..(i-1) : s[j] # c) - 1
  ELSE -1

\* strings.Index on s[start:], 0-based relative to start, -1 if there is none.
IndexFrom(s, old, start) ==
  LET n == Len(old)
      hits == {i \in (start+1)..(Len(s)-n+1) : SubSeq(s, i, i+n-1) = old}
  IN IF hits = {} THEN -1
     ELSE (CHOOSE i \in hits : \A j \in hits : i <= j) - 1 - start

\* The copy loop of strings.Replace(s, old, new, -1) from byte offset start:
\* find the next match, copy what precedes it, write new, continue after it.
RECURSIVE ReplaceFrom(_, _, _, _)
ReplaceFrom(s, old, new, start) ==
  LET j == IndexFrom(s, old, start)
  IN IF j < 0 THEN SubSeq(s, start+1, Len(s))
     ELSE SubSeq(s, start+1, start+j) \o new
          \o ReplaceFrom(s, old, new, start + j + Len(old))

\* strings.Replace(s, old, new, 1): only the first match is replaced.
ReplaceFirst(s, old, new) ==
  LET j == IndexFrom(s, old, 0)
  IN IF j < 0 THEN s
     ELSE SubSeq(s, 1, j) \o new \o SubSeq(s, j + Len(old) + 1, Len(s))

\* strings.ReplaceAll(s, old, new); old is never empty here ("." + namespace).
ReplaceAll(s, old, new) == ReplaceFrom(s, old, new, 0)

\* The value of a call that did not return: a runtime panic.
Panicked == [panic |-> TRUE, val |-> <<>>]
Returned(v) == [panic |-> FALSE, val |-> v]

\* A normalizer that tolerates a missing colon (keeps the whole target).
HostFromTargetLenient(namespace, target) ==
  LET idx == IndexByte(target, ":")
      withoutPort == IF idx < 0 THEN target ELSE SubSeq(target, 1, idx)
  IN Returned(ReplaceAll(withoutPort, <<".">> \o namespace, <<>>))

\* GetDefaultHostFromTargetFunc(namespace)(target): target[:IndexByte(target,
\* ':')] panics (slice bounds out of range) when the index is -1.
GetDefaultHostFromTargetFunc(namespace, target) ==
  LET idx == IndexByte(target, ":")
  IN IF idx < 0 THEN Panicked
     ELSE Returned(ReplaceAll(SubSeq(target, 1, idx), <<".">> \o namespace, <<>>))

\* ------------------------------------------------------ trace headers
\* header.Header: trace id, parent id, sampling decision ("" is unset).
NoHeader == [TraceID |-> "", ParentID |-> "", SamplingDecision |-> ""]
Sampled == "Sampled=1"
NotSampled == "Sampled=0"

\* Header.String(): the non-empty fields as "Root=..", "Parent=..", and the
\* sampling decision, joined by ";".
HeaderString(h) ==
  (IF h.TraceID # "" THEN << <<"Root=", h.TraceID>> >> ELSE <<>>)
  \o (IF h.ParentID # "" THEN << <<"Parent=", h.ParentID>> >> ELSE <<>>)
  \o (IF h.SamplingDecision = Sampled THEN << <<"Sampled=", "1">> >>
      ELSE IF h.SamplingDecision = NotSampled THEN << <<"Sampled=", "0">> >>
      ELSE <<>>)

\* header.FromString: scan the parts left to right; a recognised prefix sets
\* its field, anything else is ignored; the empty string gives NoHeader.
RECURSIVE ParseParts(_, _)
ParseParts(parts, h) ==
  IF parts = <<>> THEN h
  ELSE LET p == Head(parts)
           h2 == IF p[1] = "Root=" THEN [h EXCEPT !.TraceID = p[2]]
                 ELSE IF p[1] = "Parent=" THEN [h EXCEPT !.ParentID = p[2]]
                 ELSE IF p[1] = "Sampled=" /\ p[2] = "1"
                      THEN [h EXCEPT !.SamplingDecision = Sampled]
                 ELSE IF p[1] = "Sampled=" /\ p[2] = "0"
                      THEN [h EXCEPT !.SamplingDecision = NotSampled]
                 ELSE h
       IN ParseParts(Tail(parts), h2)

FromString(s) == ParseParts(s, NoHeader)

\* ------------------------------------------------------------- metadata
\* metadata.MD: a mapping from keys to lists of values; only the domain and
\* the trace-header entry matter here.
EmptyMD == [k \in {} |-> <<>>]

\* metadata.AppendToOutgoingContext(ctx, k, v): v is appended after the
\* values the context already carries under k.
AppendToOutgoingContext(md, k, v) ==
  [x \in DOMAIN md \cup {k} |->
     IF x = k THEN (IF k \in DOMAIN md THEN md[k] ELSE <<>>) \o <<v>>
     ELSE md[x]]

\* A variant that takes the last value of the entry instead of the first.
TraceStringLast(md) ==
  IF TraceIDHeaderKey \in DOMAIN md /\ Len(md[TraceIDHeaderKey]) > 0
  THEN md[TraceIDHeaderKey][Len(md[TraceIDHeaderKey])]
  ELSE <<>>

\* The server's lookup: traceString := ""; if the key is present and its
\* list is non-empty, traceString = list[0].
TraceString(md) ==
  IF TraceIDHeaderKey \in DOMAIN md
  THEN IF Len(md[TraceIDHeaderKey]) > 0 THEN md[TraceIDHeaderKey][1] ELSE <<>>
  ELSE <<>>

\* Serialized headers a peer that is not this client interceptor may send.
UpstreamHeader == HeaderString([TraceID |-> "T9", ParentID |-> "P9", SamplingDecision |-> NotSampled])
GarbageHeader == << <<"junk", "x">> >>

\* ---------------------------------------------------------------- state
VARIABLES
  namespace,  \* the namespace the default host mapping was built with
  cpc,        \* client interceptor: position of each call
  cctx,       \* client interceptor: the call's context and connection
  chost,      \* client interceptor: result of hostFromTarget(cc.Target())
  cseg,       \* client interceptor: the subsegment opened by xray.Capture
  clock,      \* client interceptor: holder of the subsegment's lock
  cmd,        \* client interceptor: outgoing metadata of the inner context
  cinv,       \* client interceptor: the wrapped invoker's call and result
  cret,       \* client interceptor: the value returned to the caller
  spc,        \* server interceptor: position of each call
  sctx,       \* server interceptor: the call's context
  straceString, \* server interceptor: the string handed to header.FromString
  sseg,       \* server interceptor: the segment created for the call
  slock,      \* server interceptor: holder of the segment's lock
  shandler,   \* server interceptor: the wrapped handler's call and result
  sret        \* server interceptor: the value returned to the caller

cvars == <<cpc, cctx, chost, cseg, clock, cmd, cinv, cret>>
svars == <<spc, sctx, straceString, sseg, slock, shandler, sret>>
vars == <<namespace, cvars, svars>>

\* A segment that does not exist (yet).  statusWrites counts writes of the
\* response status, unguarded counts interceptor writes made without the
\* lock, early counts status writes made before the wrapped call returned,
\* late counts interceptor writes made after Close, locks counts the
\* interceptor's Lock calls, closed counts Close calls.
NoSegment ==
  [TraceID |-> "", ParentID |-> "", Sampled |-> FALSE, exists |-> FALSE,
   Name |-> <<>>, ID |-> "", Method |-> "", URL |-> "", ClientIP |-> "",
   UserAgent |-> "", Status |-> 0, statusWrites |-> 0, unguarded |-> 0,
   early |-> 0, late |-> 0, locks |-> 0, closed |-> 0, closeErr |-> Nil]

NoContext == [target |-> <<>>, TraceID |-> "", Sampled |-> FALSE, md |-> EmptyMD, hasSeg |-> FALSE]
NoInvocation == [err |-> Nil, md |-> EmptyMD, count |-> 0, returned |-> FALSE, remote |-> FALSE]
NoServerContext == [md |-> EmptyMD, hasMD |-> FALSE, peer |-> FALSE, viaClient |-> FALSE]
NoHandling == [resp |-> Nil, err |-> Nil, count |-> 0, returned |-> FALSE]
NotReturned == [resp |-> Nil, err |-> Nil, returned |-> FALSE]

\* ------------------------------------------------------------ the inputs
RECURSIVE SeqsUpTo(_, _)
SeqsUpTo(S, n) ==
  IF n = 0 THEN {<<>>}
  ELSE LET shorter == SeqsUpTo(S, n - 1)
       IN shorter \cup {Append(q, x) : q \in {r \in shorter : Len(r) = n - 1}, x \in S}

\* Targets and namespaces of the normalizer specification.
AllTargets == SeqsUpTo(Alphabet, MaxTargetLen)
AllNamespaces == {<<>>, <<"n">>, <<"n", "a">>}
\* Targets dialled in the interceptor specification: "a.n:a" and "a".
DialTargets == {<<"a", ".", "n", ":", "a">>, <<"a">>}
DialNamespaces == {<<"n">>}

\* Outgoing metadata a caller's context may already carry: none, or
\* entries forwarded from an upstream call, a trace header among them.
ForwardedMD ==
  [k \in {TraceIDHeaderKey, "authorization"} |->
     IF k = TraceIDHeaderKey THEN <<UpstreamHeader>> ELSE <<GarbageHeader>>]
OutgoingChoices == {EmptyMD, ForwardedMD}

\* Contexts a client interceptor may be called with: with an active segment
\* (of trace T1, sampled or not) or without one.
ClientContexts(T) ==
  {[target |-> t, TraceID |-> "T1", Sampled |-> sm, md |-> m, hasSeg |-> TRUE] :
     t \in T, sm \in BOOLEAN, m \in OutgoingChoices}
  \cup {[target |-> t, TraceID |-> "", Sampled |-> FALSE, md |-> m, hasSeg |-> FALSE] :
     t \in T, m \in OutgoingChoices}

\* Untraced contexts without outgoing metadata.
PlainContexts(T) ==
  {[target |-> t, TraceID |-> "", Sampled |-> FALSE, md |-> EmptyMD, hasSeg |-> FALSE] :
     t \in T}

\* Incoming metadata of a server call that does not come from the client
\* interceptor: key absent, no values, an empty value, garbage, one header,
\* two values.
IncomingChoices ==
  {EmptyMD,
   [k \in {TraceIDHeaderKey} |-> <<>>],
   [k \in {TraceIDHeaderKey} |-> << <<>> >>],
   [k \in {TraceIDHeaderKey} |-> <<GarbageHeader>>],
   [k \in {TraceIDHeaderKey} |-> <<UpstreamHeader>>],
   [k \in {TraceIDHeaderKey} |-> <<UpstreamHeader, GarbageHeader>>]}

\* Contexts of such a call: with metadata (and peer information, except for
\* the empty metadata), or without metadata.
ServerContexts ==
  {[md |-> m, hasMD |-> TRUE, peer |-> (m # EmptyMD), viaClient |-> FALSE] :
     m \in IncomingChoices}
  \cup {[md |-> EmptyMD, hasMD |-> FALSE, peer |-> FALSE, viaClient |-> FALSE]}

\* The contexts of the two specifications' client calls.
DialContexts == ClientContexts(DialTargets)
NormContexts == PlainContexts(AllTargets)

\* --------------------------------------------------------------- Init
InitCalls ==
  /\ cpc = [c \in Calls |-> "idle"]
  /\ cctx = [c \in Calls |-> NoContext]
  /\ chost = [c \in Calls |-> <<>>]
  /\ cseg = [c \in Calls |-> NoSegment]
  /\ clock = [c \in Calls |-> "free"]
  /\ cmd = [c \in Calls |-> EmptyMD]
  /\ cinv = [c \in Calls |-> NoInvocation]
  /\ cret = [c \in Calls |-> NotReturned]
  /\ spc = [c \in Calls |-> "idle"]
  /\ sctx = [c \in Calls |-> NoServerContext]
  /\ straceString = [c \in Calls |-> <<>>]
  /\ sseg = [c \in Calls |-> NoSegment]
  /\ slock = [c \in Calls |-> "free"]
  /\ shandler = [c \in Calls |-> NoHandling]
  /\ sret = [c \in Calls |-> NotReturned]

Init == namespace \in DialNamespaces /\ InitCalls

\* ------------------------------------------------- the segment's lock
\* An interceptor write to a segment: counted as unguarded when the
\* interceptor does not hold the lock, as late when the segment is closed.
Written(seg, holder) ==
  [seg EXCEPT !.unguarded = @ + (IF holder = "interceptor" THEN 0 ELSE 1),
              !.late = @ + (IF seg.closed > 0 THEN 1 ELSE 0)]

\* ------------------------------------------------- client interceptor
\* seg.DownstreamHeader(): the trace of the segment, this subsegment as
\* parent, the sampling decision of the trace.
DownstreamHeader(seg) ==
  [TraceID |-> seg.TraceID, ParentID |-> seg.ID,
   SamplingDecision |-> IF seg.Sampled THEN Sampled ELSE NotSampled]

\* The host mapping the client interceptor was built with.
hostFromTarget(target) == GetDefaultHostFromTargetFunc(namespace, target)

\* The interceptor is called: host := hostFromTarget(cc.Target()).  A panic
\* of the mapping ends the call before xray.Capture is reached.
ClientCall(c, X) ==
  /\ cpc[c] = "idle" /\ spc[c] = "idle"
  /\ \E x \in X :
       LET h == hostFromTarget(x.target)
       IN /\ cctx' = [cctx EXCEPT ![c] = x]
          /\ cmd' = [cmd EXCEPT ![c] = x.md]
          /\ chost' = [chost EXCEPT ![c] = h.val]
          /\ cpc' = [cpc EXCEPT ![c] = IF h.panic THEN "panicked" ELSE "capture"]
  /\ UNCHANGED <<namespace, cseg, clock, cinv, cret, svars>>

\* A closure without the nil check: it goes on to lock whatever GetSegment
\* returned.
ClientCaptureNoNilCheck(c) ==
  /\ cpc[c] = "capture"
  /\ cseg' = [cseg EXCEPT ![c] =
       IF cctx[c].hasSeg
       THEN [NoSegment EXCEPT !.exists = TRUE, !.Name = chost[c], !.ID = "sub-" \o c,
                              !.TraceID = cctx[c].TraceID,
                              !.Sampled = cctx[c].Sampled]
       ELSE NoSegment]
  /\ cpc' = [cpc EXCEPT ![c] = "lock1"]
  /\ UNCHANGED <<namespace, cctx, chost, clock, cmd, cinv, cret, svars>>

\* xray.Capture begins a subsegment named host when the context carries a
\* segment and calls the closure; seg := xray.GetSegment(ctx) is that
\* subsegment, or nil when there is none.
ClientCapture(c) ==
  /\ cpc[c] = "capture"
  /\ cseg' = [cseg EXCEPT ![c] =
       IF cctx[c].hasSeg
       THEN [NoSegment EXCEPT !.exists = TRUE, !.Name = chost[c], !.ID = "sub-" \o c,
                              !.TraceID = cctx[c].TraceID,
                              !.Sampled = cctx[c].Sampled]
       ELSE NoSegment]
  /\ cpc' = [cpc EXCEPT ![c] = IF cctx[c].hasSeg THEN "lock1" ELSE "invoke"]
  /\ UNCHANGED <<namespace, cctx, chost, clock, cmd, cinv, cret, svars>>

\* seg.Lock() before the request fields are written.
ClientLock1(c) ==
  /\ cpc[c] = "lock1"
  /\ clock[c] = "free"
  /\ clock' = [clock EXCEPT ![c] = "interceptor"]
  /\ cseg' = [cseg EXCEPT ![c].locks = @ + 1]
  /\ cpc' = [cpc EXCEPT ![c] = "inject"]
  /\ UNCHANGED <<namespace, cctx, chost, cmd, cinv, cret, svars>>

\* Method = GrpcMethod; the downstream header is appended to the outgoing
\* metadata under the trace-header key.
ClientInject(c) ==
  /\ cpc[c] = "inject"
  /\ cseg' = [cseg EXCEPT ![c] = [Written(@, clock[c]) EXCEPT !.Method = GrpcMethod]]
  /\ cmd' = [cmd EXCEPT ![c] =
       AppendToOutgoingContext(@, TraceIDHeaderKey, HeaderString(DownstreamHeader(cseg[c])))]
  /\ cpc' = [cpc EXCEPT ![c] = "unlock1"]
  /\ UNCHANGED <<namespace, cctx, chost, clock, cinv, cret, svars>>

\* seg.Unlock() before the invoker is called.
ClientUnlock1(c) ==
  /\ cpc[c] = "unlock1"
  /\ clock' = [clock EXCEPT ![c] = "free"]
  /\ cpc' = [cpc EXCEPT ![c] = "invoke"]
  /\ UNCHANGED <<namespace, cctx, chost, cseg, cmd, cinv, cret, svars>>

\* invoker(ctx, method, req, resp, cc, opts...) is entered with the inner
\* context's outgoing metadata.  The call either completes at this end
\* (remote = FALSE) or reaches a server that runs the server interceptor of
\* this library, with the metadata as its incoming metadata.
ClientInvoke(c, R) ==
  /\ cpc[c] = "invoke"
  /\ \E remote \in R :
       /\ cinv' = [cinv EXCEPT ![c] = [@ EXCEPT !.count = @ + 1, !.md = cmd[c], !.remote = remote]]
       /\ IF remote
          THEN /\ spc' = [spc EXCEPT ![c] = "start"]
               /\ sctx' = [sctx EXCEPT ![c] =
                    [md |-> cmd[c], hasMD |-> TRUE, peer |-> TRUE, viaClient |-> TRUE]]
          ELSE UNCHANGED <<spc, sctx>>
  /\ cpc' = [cpc EXCEPT ![c] = "invoking"]
  /\ UNCHANGED <<namespace, cctx, chost, cseg, clock, cmd, cret,
                 straceString, sseg, slock, shandler, sret>>

\* Where the closure continues when the invoker has returned.
AfterInvoke(c) == IF cseg[c].exists THEN "lock2" ELSE "return"

\* The invoker returns nil or an error without reaching a server.
InvokerReturn(c) ==
  /\ cpc[c] = "invoking" /\ ~cinv[c].remote
  /\ \E e \in WrappedErrors \cup {Nil} :
       cinv' = [cinv EXCEPT ![c] = [@ EXCEPT !.returned = TRUE, !.err = e]]
  /\ cpc' = [cpc EXCEPT ![c] = AfterInvoke(c)]
  /\ UNCHANGED <<namespace, cctx, chost, cseg, clock, cmd, cret, svars>>

\* The invoker returns what the server interceptor returned for the call
\* (a server that panicked is seen as an Unavailable error).
InvokerRemoteReturn(c) ==
  /\ cpc[c] = "invoking" /\ cinv[c].remote
  /\ spc[c] \in {"done", "panicked"}
  /\ cinv' = [cinv EXCEPT ![c] = [@ EXCEPT !.returned = TRUE,
       !.err = IF spc[c] = "panicked" THEN "Unavailable" ELSE sret[c].err]]
  /\ cpc' = [cpc EXCEPT ![c] = AfterInvoke(c)]
  /\ UNCHANGED <<namespace, cctx, chost, cseg, clock, cmd, cret, svars>>

\* The invoker panics: xray.Capture's deferred Close runs while the panic
\* unwinds, and the interceptor does not return.
InvokerPanic(c) ==
  /\ cpc[c] = "invoking" /\ ~cinv[c].remote
  /\ cseg' = [cseg EXCEPT ![c] =
       IF @.exists THEN [@ EXCEPT !.closed = @ + 1, !.closeErr = "panic"] ELSE @]
  /\ cpc' = [cpc EXCEPT ![c] = "panicked"]
  /\ UNCHANGED <<namespace, cctx, chost, clock, cmd, cinv, cret, svars>>

\* seg.Lock() after the invoker returned.
ClientLock2(c) ==
  /\ cpc[c] = "lock2"
  /\ clock[c] = "free"
  /\ clock' = [clock EXCEPT ![c] = "interceptor"]
  /\ cseg' = [cseg EXCEPT ![c].locks = @ + 1]
  /\ cpc' = [cpc EXCEPT ![c] = "status"]
  /\ UNCHANGED <<namespace, cctx, chost, cmd, cinv, cret, svars>>

\* A status that depends on the kind of error.
NaiveStatusByKind(err) ==
  IF err = Nil THEN StatusSuccess
  ELSE IF err = "Unavailable" THEN 503 ELSE StatusFailure

\* Naive status codes: 400 if err != nil, 200 otherwise.
NaiveStatus(err) == IF err # Nil THEN StatusFailure ELSE StatusSuccess

\* A status write on seg by the interceptor, for a wrapped call that has
\* (or has not) returned err.
StatusWritten(seg, holder, returned, err) ==
  [Written(seg, holder) EXCEPT !.Status = NaiveStatus(err),
                               !.statusWrites = @ + 1,
                               !.early = @ + (IF returned THEN 0 ELSE 1)]

ClientStatus(c) ==
  /\ cpc[c] = "status"
  /\ cseg' = [cseg EXCEPT ![c] = StatusWritten(@, clock[c], cinv[c].returned, cinv[c].err)]
  /\ cpc' = [cpc EXCEPT ![c] = "unlock2"]
  /\ UNCHANGED <<namespace, cctx, chost, clock, cmd, cinv, cret, svars>>

\* seg.Unlock() after the status write.
ClientUnlock2(c) ==
  /\ cpc[c] = "unlock2"
  /\ clock' = [clock EXCEPT ![c] = "free"]
  /\ cpc' = [cpc EXCEPT ![c] = "return"]
  /\ UNCHANGED <<namespace, cctx, chost, cseg, cmd, cinv, cret, svars>>

\* An interceptor that swallows the wrapped call's error.
ClientResultSwallowed(c) == Nil

\* What the closure, xray.Capture and the interceptor return: err.
ClientResult(c) == cinv[c].err

\* The closure returns err; xray.Capture closes the subsegment it opened
\* (with err) and returns err; the interceptor returns err.
ClientReturn(c) ==
  /\ cpc[c] = "return"
  /\ cseg' = [cseg EXCEPT ![c] =
       IF @.exists THEN [@ EXCEPT !.closed = @ + 1, !.closeErr = cinv[c].err] ELSE @]
  /\ cret' = [cret EXCEPT ![c] = [resp |-> Nil, err |-> ClientResult(c), returned |-> TRUE]]
  /\ cpc' = [cpc EXCEPT ![c] = "done"]
  /\ UNCHANGED <<namespace, cctx, chost, clock, cmd, cinv, svars>>

\* Tracing activity nested in the wrapped call (a goroutine it started)
\* locks the subsegment while the invoker runs, and unlocks it later.
ClientNestedLock(c) ==
  /\ cpc[c] = "invoking" /\ cseg[c].exists
  /\ clock[c] = "free"
  /\ clock' = [clock EXCEPT ![c] = "nested"]
  /\ UNCHANGED <<namespace, cpc, cctx, chost, cseg, cmd, cinv, cret, svars>>

ClientNestedUnlock(c) ==
  /\ clock[c] = "nested"
  /\ clock' = [clock EXCEPT ![c] = "free"]
  /\ UNCHANGED <<namespace, cpc, cctx, chost, cseg, cmd, cinv, cret, svars>>

\* ------------------------------------------------- server interceptor
\* The fixed segment name (xray.NewFixedSegmentNamer).
SegmentName == <<"my-service">>

\* The server interceptor is called directly by the RPC framework or a
\* test, with a context that may lack incoming metadata.
ServerCall(c) ==
  /\ spc[c] = "idle" /\ cpc[c] = "idle"
  /\ \E x \in ServerContexts : sctx' = [sctx EXCEPT ![c] = x]
  /\ spc' = [spc EXCEPT ![c] = "start"]
  /\ UNCHANGED <<namespace, cvars, straceString, sseg, slock, shandler, sret>>

\* xray.NewSegmentFromHeader(ctx, name, nil, h): a new segment that takes
\* the header's trace id and parent id when it has them (a fresh trace
\* otherwise) and its sampling decision when it states one (the sampling
\* strategy's decision otherwise).
NewSegmentFromHeader(c, h, strategy) ==
  [NoSegment EXCEPT !.exists = TRUE, !.Name = SegmentName, !.ID = "seg-" \o c,
     !.TraceID = IF h.TraceID # "" THEN h.TraceID ELSE "new-" \o c,
     !.ParentID = h.ParentID,
     !.Sampled = IF h.SamplingDecision = Sampled THEN TRUE
                 ELSE IF h.SamplingDecision = NotSampled THEN FALSE
                 ELSE strategy]

\* A metadata check that lets a context without metadata through.
MetadataMissingIgnored(c) == FALSE

\* md, ok := metadata.FromIncomingContext(ctx); !ok
MetadataMissing(c) == ~sctx[c].hasMD

\* The interceptor's first part: without metadata it returns (nil, error);
\* otherwise it takes the trace string from the metadata, parses it and
\* creates the segment, whose Close is deferred.
ServerStart(c) ==
  /\ spc[c] = "start"
  /\ IF MetadataMissing(c)
     THEN /\ sret' = [sret EXCEPT ![c] = [resp |-> Nil, err |-> ErrNoMetadata, returned |-> TRUE]]
          /\ spc' = [spc EXCEPT ![c] = "done"]
          /\ UNCHANGED <<straceString, sseg>>
     ELSE /\ straceString' = [straceString EXCEPT ![c] = TraceString(sctx[c].md)]
          /\ \E strategy \in BOOLEAN :
               sseg' = [sseg EXCEPT ![c] =
                 NewSegmentFromHeader(c, FromString(TraceString(sctx[c].md)), strategy)]
          /\ spc' = [spc EXCEPT ![c] = "lock1"]
          /\ UNCHANGED sret
  /\ UNCHANGED <<namespace, cvars, sctx, slock, shandler>>

\* seg.Lock() before the request data is attached.
ServerLock1(c) ==
  /\ spc[c] = "lock1"
  /\ slock[c] = "free"
  /\ slock' = [slock EXCEPT ![c] = "interceptor"]
  /\ sseg' = [sseg EXCEPT ![c].locks = @ + 1]
  /\ spc' = [spc EXCEPT ![c] = "setreq"]
  /\ UNCHANGED <<namespace, cvars, sctx, straceString, shandler, sret>>

\* seg.GetHTTP().Request = reqData: method, full method, client address of
\* the peer if the context has one, user agent.
ServerSetRequest(c) ==
  /\ spc[c] = "setreq"
  /\ sseg' = [sseg EXCEPT ![c] =
       [Written(@, slock[c]) EXCEPT !.Method = GrpcMethod, !.URL = "/pkg.Service/Method",
          !.ClientIP = IF sctx[c].peer THEN "10.0.0.1:5000" ELSE "",
          !.UserAgent = CustomUserAgent]]
  /\ spc' = [spc EXCEPT ![c] = "unlock1"]
  /\ UNCHANGED <<namespace, cvars, sctx, straceString, slock, shandler, sret>>

\* A first unlock that is forgotten: the lock stays with the interceptor.
ServerUnlock1Kept(c) ==
  /\ spc[c] = "unlock1"
  /\ spc' = [spc EXCEPT ![c] = "handle"]
  /\ UNCHANGED <<namespace, cvars, sctx, straceString, sseg, slock, shandler, sret>>

\* seg.Unlock() before the handler is called.
ServerUnlock1(c) ==
  /\ spc[c] = "unlock1"
  /\ slock' = [slock EXCEPT ![c] = "free"]
  /\ spc' = [spc EXCEPT ![c] = "handle"]
  /\ UNCHANGED <<namespace, cvars, sctx, straceString, sseg, shandler, sret>>

\* handler(ctx, req) is entered.
ServerHandle(c) ==
  /\ spc[c] = "handle"
  /\ shandler' = [shandler EXCEPT ![c].count = @ + 1]
  /\ spc' = [spc EXCEPT ![c] = "handling"]
  /\ UNCHANGED <<namespace, cvars, sctx, straceString, sseg, slock, sret>>

\* The handler returns one of its outcomes.
HandlerReturn(c) ==
  /\ spc[c] = "handling"
  /\ \E o \in HandlerOutcomes :
       shandler' = [shandler EXCEPT ![c] = [@ EXCEPT !.returned = TRUE, !.resp = o.resp, !.err = o.err]]
  /\ spc' = [spc EXCEPT ![c] = "lock2"]
  /\ UNCHANGED <<namespace, cvars, sctx, straceString, sseg, slock, sret>>

\* A deferred close that is missing.
DeferredCloseMissing(seg) == seg

\* defer seg.Close(nil), run when the interceptor returns or unwinds.
DeferredClose(seg) == [seg EXCEPT !.closed = @ + 1, !.closeErr = Nil]

\* The handler panics: the deferred Close runs while the panic unwinds.
HandlerPanic(c) ==
  /\ spc[c] = "handling"
  /\ sseg' = [sseg EXCEPT ![c] = DeferredClose(@)]
  /\ spc' = [spc EXCEPT ![c] = "panicked"]
  /\ UNCHANGED <<namespace, cvars, sctx, straceString, slock, shandler, sret>>

\* seg.Lock() after the handler returned.
ServerLock2(c) ==
  /\ spc[c] = "lock2"
  /\ slock[c] = "free"
  /\ slock' = [slock EXCEPT ![c] = "interceptor"]
  /\ sseg' = [sseg EXCEPT ![c].locks = @ + 1]
  /\ spc' = [spc EXCEPT ![c] = "status"]
  /\ UNCHANGED <<namespace, cvars, sctx, straceString, shandler, sret>>

\* Naive status codes on the server segment.
ServerStatus(c) ==
  /\ spc[c] = "status"
  /\ sseg' = [sseg EXCEPT ![c] = StatusWritten(@, slock[c], shandler[c].returned, shandler[c].err)]
  /\ spc' = [spc EXCEPT ![c] = "unlock2"]
  /\ UNCHANGED <<namespace, cvars, sctx, straceString, slock, shandler, sret>>

\* seg.Unlock() after the status write.
ServerUnlock2(c) ==
  /\ spc[c] = "unlock2"
  /\ slock' = [slock EXCEPT ![c] = "free"]
  /\ spc' = [spc EXCEPT ![c] = "return"]
  /\ UNCHANGED <<namespace, cvars, sctx, straceString, sseg, shandler, sret>>

\* return resp, err; the deferred Close runs.
ServerReturn(c) ==
  /\ spc[c] = "return"
  /\ sret' = [sret EXCEPT ![c] =
       [resp |-> shandler[c].resp, err |-> shandler[c].err, returned |-> TRUE]]
  /\ sseg' = [sseg EXCEPT ![c] = DeferredClose(@)]
  /\ spc' = [spc EXCEPT ![c] = "done"]
  /\ UNCHANGED <<namespace, cvars, sctx, straceString, slock, shandler>>

\* Tracing activity nested in the handler locks the segment while the
\* handler runs, and unlocks it later.
ServerNestedLock(c) ==
  /\ spc[c] = "handling"
  /\ slock[c] = "free"
  /\ slock' = [slock EXCEPT ![c] = "nested"]
  /\ UNCHANGED <<namespace, cvars, spc, sctx, straceString, sseg, shandler, sret>>

ServerNestedUnlock(c) ==
  /\ slock[c] = "nested"
  /\ slock' = [slock EXCEPT ![c] = "free"]
  /\ UNCHANGED <<namespace, cvars, spc, sctx, straceString, sseg, shandler, sret>>

\* ------------------------------------------------------ specifications
ClientNext(c) ==
  \/ ClientCall(c, DialContexts)
  \/ ClientCapture(c)
  \/ ClientLock1(c)
  \/ ClientInject(c)
  \/ ClientUnlock1(c)
  \/ ClientInvoke(c, BOOLEAN)
  \/ InvokerReturn(c)
  \/ InvokerRemoteReturn(c)
  \/ InvokerPanic(c)
  \/ ClientLock2(c)
  \/ ClientStatus(c)
  \/ ClientUnlock2(c)
  \/ ClientReturn(c)
  \/ ClientNestedLock(c)
  \/ ClientNestedUnlock(c)

ServerNext(c) ==
  \/ ServerCall(c)
  \/ ServerStart(c)
  \/ ServerLock1(c)
  \/ ServerSetRequest(c)
  \/ ServerUnlock1(c)
  \/ ServerHandle(c)
  \/ HandlerReturn(c)
  \/ HandlerPanic(c)
  \/ ServerLock2(c)
  \/ ServerStatus(c)
  \/ ServerUnlock2(c)
  \/ ServerReturn(c)
  \/ ServerNestedLock(c)
  \/ ServerNestedUnlock(c)

Next == \E c \in Calls : ClientNext(c) \/ ServerNext(c)

\* Concurrent calls through both interceptors.
Spec == Init /\ [][Next]_vars

\* One untraced call whose invoker completes locally, on a connection to any
\* target, with a host mapping built for any namespace.
InitNorm == namespace \in AllNamespaces /\ InitCalls

NextNorm ==
  \/ ClientCall("c1", NormContexts)
  \/ ClientCapture("c1")
  \/ ClientInvoke("c1", {FALSE})
  \/ InvokerReturn("c1")
  \/ InvokerPanic("c1")
  \/ ClientReturn("c1")

SpecNorm == InitNorm /\ [][NextNorm]_vars

\* ---------------------------------------------------------- properties
\* The part of the call's target before its first colon, and the pattern
\* ".<namespace>".
HasColon(t) == \E i \in 1..Len(t) : t[i] = ":"
BeforeColon(t) ==
  SubSeq(t, 1, (CHOOSE i \in 1..Len(t) : t[i] = ":" /\ \A j \in 1..(i-1) : t[j] # ":") - 1)
NamespaceSuffix == <<".">> \o namespace

Finished(pc) == pc \in {"done", "panicked"}

\* C1: whatever the interceptor returns is what the wrapped call returned:
\* the client interceptor returns the invoker's error (or nil) on the traced
\* and the untraced path, after exactly one invocation; the server
\* interceptor, once the handler was reached, returns the handler's result
\* and error.
ReturnsWrappedResult ==
  \A c \in Calls :
    /\ cpc[c] = "done" <=> cret[c].returned
    /\ cret[c].returned =>
         /\ cinv[c].count = 1 /\ cinv[c].returned
         /\ cret[c].err = cinv[c].err
    /\ spc[c] = "done" <=> sret[c].returned
    /\ sret[c].returned /\ shandler[c].count > 0 =>
         /\ shandler[c].count = 1 /\ shandler[c].returned
         /\ sret[c].resp = shandler[c].resp
         /\ sret[c].err = shandler[c].err

\* A traced end-to-end call came back with the handler's error and result,
\* while an untraced call returned its invoker's error.
ReturnsWrappedResultWitness ==
  \E c, d \in Calls :
    /\ cret[c].returned /\ cseg[c].exists /\ cinv[c].remote
    /\ sret[c].resp = "partial" /\ cret[c].err = "Internal"
    /\ cret[d].returned /\ ~cseg[d].exists /\ cret[d].err = "Unavailable"

LockNotHeldAcrossInvocation ==
  \A c \in Calls :
    /\ clock[c] = "interceptor" <=> cpc[c] \in {"inject", "unlock1", "status", "unlock2"}
    /\ slock[c] = "interceptor" <=> spc[c] \in {"setreq", "unlock1", "status", "unlock2"}
    /\ cpc[c] = "invoking" /\ cseg[c].exists /\ clock[c] # "nested" => ENABLED ClientNestedLock(c)
    /\ spc[c] = "handling" /\ slock[c] # "nested" => ENABLED ServerNestedLock(c)

\* Nested activity holds the locks of two concurrent calls' segments while
\* their wrapped calls run, one in a handler and one in an invoker.
LockNotHeldAcrossInvocationWitness ==
  \E c, d \in Calls :
    /\ c # d
    /\ spc[c] = "handling" /\ slock[c] = "nested"
    /\ cpc[d] = "invoking" /\ clock[d] = "nested" /\ ~cinv[d].remote

\* C4: a server call without incoming metadata returns (nil, error) in its
\* first step; its handler is never invoked and no segment is created,
\* locked, written or closed.
NoMetadataFailsFast ==
  \A c \in Calls :
    spc[c] # "idle" /\ ~sctx[c].hasMD =>
      /\ spc[c] \in {"start", "done"}
      /\ shandler[c] = NoHandling
      /\ sseg[c] = NoSegment
      /\ slock[c] = "free"
      /\ spc[c] = "done" =>
           sret[c] = [resp |-> Nil, err |-> ErrNoMetadata, returned |-> TRUE]

NoMetadataFailsFastWitness ==
  \E c \in Calls : spc[c] = "done" /\ ~sctx[c].hasMD /\ sret[c].err = ErrNoMetadata

\* C5: on a traced call the response status is written once, after the
\* wrapped call returned and under the lock; it is 400 exactly when the
\* wrapped call returned an error and 200 otherwise; it is written by the
\* time the interceptor has released the lock again.
StatusOf(seg, pc, inv) ==
  /\ seg.statusWrites <= 1
  /\ seg.early = 0
  /\ seg.unguarded = 0
  /\ seg.statusWrites = 0 => seg.Status = 0
  /\ seg.statusWrites = 1 =>
       /\ inv.returned
       /\ seg.Status = 400 <=> inv.err # Nil
       /\ seg.Status = 200 <=> inv.err = Nil
  /\ seg.exists /\ pc \in {"unlock2", "return", "done"} => seg.statusWrites = 1

StatusWrittenOnce ==
  \A c \in Calls :
    /\ StatusOf(cseg[c], cpc[c], cinv[c])
    /\ StatusOf(sseg[c], spc[c], shandler[c])

\* An end-to-end call that failed in its handler recorded 400 on both
\* segments, and one that succeeded recorded 200 on both.
StatusWrittenOnceWitness ==
  \E c, d \in Calls :
    /\ sseg[c].Status = 400 /\ shandler[c].err = "Internal"
    /\ cseg[c].Status = 400 /\ cpc[c] = "done"
    /\ sseg[d].Status = 200 /\ shandler[d].err = Nil
    /\ cseg[d].Status = 200 /\ cpc[d] = "done"

\* C6: on a traced end-to-end call the server segment continues the context
\* the client serialized: same trace id, the client subsegment as parent,
\* the client's sampling decision.
EndToEndPropagation ==
  \A c \in Calls :
    cseg[c].exists /\ cinv[c].remote /\ sseg[c].exists =>
      /\ sseg[c].TraceID = cseg[c].TraceID
      /\ sseg[c].ParentID = cseg[c].ID
      /\ sseg[c].Sampled = cseg[c].Sampled

\* The same, for calls whose context carried no trace-header entry before
\* the client interceptor appended its own.
EndToEndPropagationSingleValue ==
  \A c \in Calls :
    /\ cseg[c].exists /\ cinv[c].remote /\ sseg[c].exists
    /\ TraceIDHeaderKey \notin DOMAIN cctx[c].md
    => /\ sseg[c].TraceID = cseg[c].TraceID
       /\ sseg[c].ParentID = cseg[c].ID
       /\ sseg[c].Sampled = cseg[c].Sampled

\* C7: a client call on a context without an active segment invokes the
\* wrapped call once, with the outgoing metadata it was given, touches no
\* segment and no lock, and returns the wrapped call's error.
NoSegmentInvokesDirectly ==
  \A c \in Calls :
    cpc[c] \notin {"idle", "capture"} /\ ~cctx[c].hasSeg /\ HasColon(cctx[c].target) =>
      /\ cpc[c] \in {"invoke", "invoking", "return", "done", "panicked"}
      /\ cseg[c] = NoSegment
      /\ clock[c] = "free"
      /\ cmd[c] = cctx[c].md
      /\ cinv[c].count = (IF cpc[c] = "invoke" THEN 0 ELSE 1)
      /\ cinv[c].count = 1 => cinv[c].md = cctx[c].md
      /\ cpc[c] = "done" => cret[c] = [resp |-> Nil, err |-> cinv[c].err, returned |-> TRUE]

\* An untraced call whose context carried forwarded metadata returned its
\* invoker's error.
NoSegmentInvokesDirectlyWitness ==
  \E c \in Calls :
    /\ cpc[c] = "done" /\ ~cctx[c].hasSeg /\ cctx[c].md = ForwardedMD
    /\ cinv[c].md = ForwardedMD /\ cret[c].err = "Internal"

\* Where pat occurs in w (1-based), and the occurrences a left-to-right
\* scan picks: an occurrence is picked unless it overlaps a picked one to
\* its left.
Occurrences(w, pat) == {i \in 1..(Len(w) - Len(pat) + 1) : SubSeq(w, i, i + Len(pat) - 1) = pat}
Picked(w, pat) ==
  CHOOSE S \in SUBSET Occurrences(w, pat) :
    \A i \in Occurrences(w, pat) :
      i \in S <=> ~\E j \in S : j < i /\ i < j + Len(pat)

\* w without the characters at the positions in Gone.
Without(w, Gone) ==
  LET Kept == (1..Len(w)) \ Gone
  IN [i \in 1..Cardinality(Kept) |->
        w[CHOOSE p \in Kept : Cardinality({q \in Kept : q < p}) = i - 1]]

\* C8 as stated: the host is the part before the colon with only the first
\* occurrence of ".<namespace>" removed.
NormalizerRemovesFirstOnly ==
  \A c \in Calls :
    cpc[c] # "idle" /\ HasColon(cctx[c].target) =>
      LET w == BeforeColon(cctx[c].target)
          occ == Occurrences(w, NamespaceSuffix)
      IN chost[c] = IF occ = {} THEN w
                    ELSE LET f == CHOOSE i \in occ : \A j \in occ : i <= j
                         IN Without(w, f..(f + Len(NamespaceSuffix) - 1))

\* C8 as amended: the host is the part before the colon with every
\* occurrence of ".<namespace>" that a left-to-right scan finds removed; a
\* single occurrence is removed once, and without any the host is the
\* target with only the port stripped.
NormalizerRemovesAll ==
  \A c \in Calls :
    cpc[c] # "idle" /\ HasColon(cctx[c].target) =>
      LET w == BeforeColon(cctx[c].target)
          pat == NamespaceSuffix
          occ == Occurrences(w, pat)
      IN /\ cpc[c] # "panicked" \/ cinv[c].count > 0
         /\ chost[c] = Without(w, {p \in 1..Len(w) : \E j \in Picked(w, pat) : j <= p /\ p < j + Len(pat)})
         /\ occ = {} => chost[c] = w
         /\ Cardinality(occ) = 1 => Len(chost[c]) = Len(w) - Len(pat)

\* A target with two occurrences, ".n.n:", was mapped to the empty host.
NormalizerRemovesAllWitness ==
  /\ namespace = <<"n">>
  /\ cctx["c1"].target = <<".", "n", ".", "n", ":">>
  /\ cpc["c1"] = "done" /\ chost["c1"] = <<>>

\* C9: with metadata present the string handed to the parser is the first
\* value of the trace-header entry, or the empty string when the entry is
\* absent or has no values; the call is not failed for it: a segment is
\* created (on a fresh trace when the string holds no context) and the
\* handler is invoked before the interceptor returns.
TraceStringIsFirstValue ==
  \A c \in Calls :
    spc[c] \notin {"idle", "start"} /\ sctx[c].hasMD =>
      LET md == sctx[c].md
          absent == TraceIDHeaderKey \notin DOMAIN md \/ md[TraceIDHeaderKey] = <<>>
      IN /\ straceString[c] = IF absent THEN <<>> ELSE Head(md[TraceIDHeaderKey])
         /\ sseg[c].exists
         /\ absent \/ Head(md[TraceIDHeaderKey]) = <<>> =>
              sseg[c].TraceID = "new-" \o c /\ sseg[c].ParentID = ""
         /\ spc[c] = "done" => shandler[c].count = 1 /\ sret[c].err = shandler[c].err

\* A call whose entry had no values and a call whose entry had two values
\* both reached their handlers; the second continued the first value.
TraceStringIsFirstValueWitness ==
  \E c, d \in Calls :
    /\ sctx[c].hasMD /\ sctx[c].md = [k \in {TraceIDHeaderKey} |-> <<>>]
    /\ spc[c] = "done" /\ sret[c].err = Nil
    /\ sctx[d].hasMD /\ sctx[d].md = [k \in {TraceIDHeaderKey} |-> <<UpstreamHeader, GarbageHeader>>]
    /\ spc[d] = "done" /\ sseg[d].TraceID = "T9"

\* C10: with a target that has no colon the host mapping panics, and the
\* client call ends there: no subsegment, no lock, no invocation, no return
\* value.
MissingColonPanics ==
  \A c \in Calls :
    cpc[c] # "idle" /\ ~HasColon(cctx[c].target) =>
      /\ cpc[c] = "panicked"
      /\ cseg[c] = NoSegment
      /\ clock[c] = "free"
      /\ cinv[c] = NoInvocation
      /\ cret[c] = NotReturned

MissingColonPanicsWitness ==
  /\ cpc["c1"] = "panicked"
  /\ cctx["c1"].target = <<"a", ".", "n">>
  /\ cinv["c1"].count = 0

====
